---- MODULE Spec2Model ----
(***************************************************************************)
(* Two programs.  The verdict bot (src/muboh_bot.py): one handler,         *)
(* on_group_message, run for one update at a time, over the records and    *)
(* reply times kept in DB_FILE.                                            *)
(*                                                                         *)
(* Ichimoku alert bot (src/bot.py): three cooperative asyncio loops        *)
(* (loop_refresh_top, loop_refresh_klines, loop_prices) sharing the        *)
(* persisted state st and the in-memory candle cache, and the per-symbol   *)
(* ARM -> BUY -> SELL cascade of handle_signals.                           *)
(*                                                                         *)
(* Every action is one atomic segment of a coroutine: the code that runs   *)
(* between two awaits.  Prices are integers in a unit fine enough that     *)
(* every division by 2.0 of the code is exact on the candles used here.    *)
(***************************************************************************)
EXTENDS Integers, Sequences, FiniteSets, TLC

(***************************************************************************)
(* Bounds of the model.                                                    *)
(***************************************************************************)
\* The verdict bot starts at time.time() = Epoch and is followed for
\* MaxElapsed seconds, in steps of TimeStep seconds.
Epoch == 1000
TimeStep == 30
MaxElapsed == 90
\* The wall clock is followed in whole days, from day 0 to day MaxDay.
MaxDay == 1
\* ichimoku_lines is applied to candle lists of MIN_CLOSED - 1 up to
\* MIN_CLOSED + MaxExtra candles.
MaxExtra == 2

(***************************************************************************)
(* Verdict bot: its environment.  COOLDOWN_SECONDS has its default; the    *)
(* group and the admin chat, which default to 0 (no filter, no report),    *)
(* are set, so that the branches they guard are taken.                     *)
(***************************************************************************)
\* int(os.getenv("COOLDOWN_SECONDS", "60"))
COOLDOWN_SECONDS == 60
\* int(os.getenv("GROUP_CHAT_ID")), the group served
GROUP_CHAT_ID == 1001
\* int(os.getenv("ADMIN_DM_CHAT_ID")), the chat untrusted verdicts are
\* reported to
ADMIN_DM_CHAT_ID == 7

(***************************************************************************)
(* Program constants.                                                      *)
(***************************************************************************)
\* int(REFRESH_KLINES_SEC * 1000)
REFRESH_KLINES_MS == 90000
\* len(closed) < 80
MIN_CLOSED == 80
\* NEAR_D_PCT = 0.015, as parts per thousand
NEAR_D_PERMILLE == 15
\* lookback windows of ichimoku_lines
TENKAN_N == 9
KIJUN_N == 26
SENKOU_B_N == 52
\* closes[-27]
CHIKOU_BACK == 27

Symbols == {"ADAUSDT", "BNBUSDT"}
TFs == <<"1d", "4h", "15m">>
TFSet == {"1d", "4h", "15m"}

\* Python None, and Some(x) for a present value of a field that may be None.
None == <<>>

(***************************************************************************)
(* Klines served by the exchange.  A response is described by the number   *)
(* of candles n, the index T of the last closed period and a price shape;  *)
(* Klines expands the description to the candle list get_klines returns    *)
(* (oldest first, the forming candle last).                                *)
(***************************************************************************)
Shapes == {"flat", "near", "above", "down"}

\* k = distance from the end of the response: 0 is the forming candle,
\* 1 the last closed candle.
Band(k) == IF k <= TENKAN_N THEN "recent"
           ELSE IF k <= KIJUN_N THEN "mid" ELSE "old"

ShapeLow(shape, k) ==
    CASE shape = "flat" -> 1000
      [] shape \in {"near", "above"} ->
            (CASE Band(k) = "recent" -> 1000 [] Band(k) = "mid" -> 980 [] OTHER -> 960)
      [] shape = "down" ->
            (CASE Band(k) = "recent" -> 960 [] Band(k) = "mid" -> 980 [] OTHER -> 1000)

ShapeHigh(shape, k) ==
    CASE shape = "flat" -> 1000
      [] OTHER -> ShapeLow(shape, k) + 20

ShapeClose(shape, k) ==
    CASE shape = "above" /\ Band(k) = "recent" -> ShapeHigh(shape, k)
      [] OTHER -> ShapeLow(shape, k)

Candle(open_time, high, low, close) ==
    [open_time |-> open_time, high |-> high, low |-> low, close |-> close]

Klines(d) ==
    [i \in 1..d.n |->
        LET k == d.n - i
        IN Candle(d.T - k + 1, ShapeHigh(d.shape, k), ShapeLow(d.shape, k),
                  ShapeClose(d.shape, k))]

(***************************************************************************)
(* ICHIMOKU                                                                *)
(***************************************************************************)
Max(S) == CHOOSE x \in S : \A y \in S : y <= x
Min(S) == CHOOSE x \in S : \A y \in S : x <= y

\* A slice one value short: xs[-(n-1):].
LastNShort(xs, n) ==
    {xs[i] : i \in (IF Len(xs) > n - 1 THEN Len(xs) - n + 2 ELSE 1)..Len(xs)}

\* xs[-n:] as the set of its values
LastN(xs, n) ==
    {xs[i] : i \in (IF Len(xs) > n THEN Len(xs) - n + 1 ELSE 1)..Len(xs)}

midpoint(highs, lows) == (Max(highs) + Min(lows)) \div 2

ichimoku_lines(closed) ==
    IF Len(closed) < MIN_CLOSED THEN None
    ELSE
      LET highs  == [i \in 1..Len(closed) |-> closed[i].high]
          lows   == [i \in 1..Len(closed) |-> closed[i].low]
          closes == [i \in 1..Len(closed) |-> closed[i].close]
          tenkan == midpoint(LastN(highs, TENKAN_N), LastN(lows, TENKAN_N))
          kijun  == midpoint(LastN(highs, KIJUN_N), LastN(lows, KIJUN_N))
          senkou_a == (tenkan + kijun) \div 2
          senkou_b == midpoint(LastN(highs, SENKOU_B_N), LastN(lows, SENKOU_B_N))
          chikou_ok == IF Len(closes) >= CHIKOU_BACK
                       THEN closes[Len(closes)] > closes[Len(closes) - CHIKOU_BACK + 1]
                       ELSE FALSE
      IN [tenkan |-> tenkan, kijun |-> kijun,
          senkou_a |-> senkou_a, senkou_b |-> senkou_b,
          cloud_top |-> IF senkou_a >= senkou_b THEN senkou_a ELSE senkou_b,
          cloud_bottom |-> IF senkou_a <= senkou_b THEN senkou_a ELSE senkou_b,
          chikou_ok |-> chikou_ok]

(***************************************************************************)
(* STATE                                                                   *)
(***************************************************************************)
VARIABLES
    clock,      \* wall clock, in days (the part below a day is an input)
    st,         \* the state dict: symbols, top_symbols, last_top_refresh_ms
    disk,       \* content of STATE_FILE (None before the first save_state)
    cache,      \* symbol -> timeframe -> {t, closed, ichi}
    pcTop,      \* loop_refresh_top: "fetch", "report", "dead", "cancelled"
    pcKl,       \* loop_refresh_klines: "idle", "fetch", "cancelled"
    kl,         \* its locals: syms, i (symbol index), j (timeframe index), tnow
    pcPr,       \* loop_prices: "idle", "prices", "call", "send_arm",
                \* "send_buy", "send_sell", "report", "dead", "cancelled"
    pr,         \* its locals: syms, price_map (list of items), i, and the
                \* frame of the running handle_signals (tf1, tf4, tf15)
    alerts,     \* history: per symbol, the alerts handed to tg_send_text
    klPass,     \* history of the current refresh pass: the pairs due at its
                \* start (entry missing or a day old) and not refreshed yet,
                \* the pairs whose fetch failed, and whether the pass ended
    prPass,     \* history of the current scan pass: symbols handled, errors
    tick,       \* history: per symbol, the stage fields the last tick left
    probe,      \* a pure function under test: its input and, once applied,
                \* its result (None while the loops run)
    dbFile,     \* verdict bot: content of DB_FILE (None while there is none)
    wall,       \* verdict bot: time.time(), in seconds
    pcMsg,      \* on_group_message: "idle", "admin_dm", "reply"
    cur,        \* its locals while it awaits the reply: db, ticker, reply,
                \* since (None otherwise)
    sent        \* history: per ticker, the times of the replies delivered

loopVars == <<clock, st, disk, cache, pcTop, pcKl, kl, pcPr, pr, alerts,
              klPass, prPass, tick>>

botVars == <<dbFile, wall, pcMsg, cur, sent>>

vars == <<clock, st, disk, cache, pcTop, pcKl, kl, pcPr, pr, alerts,
          klPass, prPass, tick, probe, dbFile, wall, pcMsg, cur, sent>>

DAY_MS == 24 * 60 * 60 * 1000

\* now_ms(), to the day.
now_ms == clock * DAY_MS

\* Index of the last closed period of a timeframe at the current time, to
\* the day.
LastClosedPeriod(tf) == clock

(***************************************************************************)
(* sym_state                                                               *)
(***************************************************************************)
FreshSymbolState ==
    [last_1d_closed_open |-> None, last_4h_closed_open |-> None,
     last_15m_closed_open |-> None,
     armed_1d |-> None, buy_done_4h |-> None, sell_done_15m |-> None,
     in_position |-> FALSE, setup_id |-> None]

\* st["symbols"] after sym_state(st, symbol); the returned s is its entry.
sym_state(symbols, symbol) ==
    IF symbol \in DOMAIN symbols THEN symbols
    ELSE symbols @@ (symbol :> FreshSymbolState)

save_state(s) == s

(***************************************************************************)
(* Cache entries.  An entry holds the fetch time t, the closed candles     *)
(* (kept as the description d of the response they were cut from) and the  *)
(* Ichimoku lines computed from them.                                      *)
(***************************************************************************)
\* candles[:-1]
\* candles[:-1] without the slice: the forming candle kept.
DropFormingNone(candles) == candles

DropForming(candles) == SubSeq(candles, 1, Len(candles) - 1)

ClosedOf(d) == DropForming(Klines(d))

\* closed[-1], for closed = ClosedOf(d)
ClosedLast(d) == Klines(d)[d.n - 1]

\* len(closed), for closed = ClosedOf(d)
ClosedLen(d) == IF d.n > 0 THEN d.n - 1 ELSE 0

\* The responses with a full history: MIN_CLOSED closed candles and the
\* forming one.
FullFeed(shape, T) == [n |-> MIN_CLOSED + 1, shape |-> shape, T |-> T]

\* ichimoku_lines(closed) of the full responses, computed once per shape:
\* the lines read high, low and close, which the period index T leaves alone.
FullLines ==
    [shape \in Shapes |-> ichimoku_lines(ClosedOf(FullFeed(shape, 0)))]

\* ichimoku_lines(ClosedOf(d))
LinesOf(d) ==
    IF d.n = MIN_CLOSED + 1 THEN FullLines[d.shape] ELSE ichimoku_lines(ClosedOf(d))

\* cache.get(symbol, {}).get(tf, {})
CacheGet(c, symbol, tf) ==
    IF symbol \in DOMAIN c /\ tf \in DOMAIN c[symbol] THEN c[symbol][tf] ELSE None

\* entry.get("ichi")
IchiOf(entry) == IF entry = None THEN None ELSE entry.ichi

\* cache.setdefault(symbol, {})
SetDefault(c, symbol) == IF symbol \in DOMAIN c THEN c ELSE c @@ (symbol :> <<>>)

CachePut(c, symbol, tf, entry) ==
    LET row == IF tf \in DOMAIN c[symbol]
               THEN [c[symbol] EXCEPT ![tf] = entry]
               ELSE c[symbol] @@ (tf :> entry)
    IN [c EXCEPT ![symbol] = row]

(***************************************************************************)
(* handle_signals: the conditions and writes of the three stages.  ss is   *)
(* the symbol's state dict, f the frame of the call: the cache entries     *)
(* tf1, tf4, tf15 read at its start.                                       *)
(***************************************************************************)
\* setup_id = f"{symbol}:{last1.open_time}"
SetupId(symbol, f) == <<symbol, ClosedLast(f.tf1.closed).open_time>>

bullish_1d_near(f) ==
    LET ichi1 == f.tf1.ichi
        last1 == ClosedLast(f.tf1.closed)
        cloud_green1 == ichi1.senkou_a > ichi1.senkou_b
        \* last1.close >= cloud_top1 * (1.0 - NEAR_D_PCT), times 1000
        near_cloud_1d ==
            /\ last1.close * 1000 >= ichi1.cloud_top * (1000 - NEAR_D_PERMILLE)
            /\ last1.close < ichi1.cloud_top
    IN (ichi1.tenkan > ichi1.kijun) /\ cloud_green1 /\ ichi1.chikou_ok
       /\ near_cloud_1d

\* ArmCond without the test of the cycle id: the variant against which the
\* once-per-cycle property is shown to depend on that test.
ArmCondNoCycleTest(ss, f, setup_id) ==
    bullish_1d_near(f) /\ ~ss.in_position

\* ArmCond without the test of in_position.
ArmCondAnyPosition(ss, f, setup_id) ==
    bullish_1d_near(f) /\ ss.setup_id # setup_id

ArmCond(ss, f, setup_id) ==
    bullish_1d_near(f) /\ ss.setup_id # setup_id /\ ~ss.in_position

ArmWrite(ss, setup_id) ==
    [ss EXCEPT !.setup_id = setup_id, !.armed_1d = setup_id,
               !.buy_done_4h = None, !.sell_done_15m = None]

buy_cond_4h(ss, f) ==
    LET armed == ss.armed_1d = ss.setup_id /\ ss.setup_id # None
        ichi4 == f.tf4.ichi
        last4 == ClosedLast(f.tf4.closed)
    IN armed /\ (ichi4.tenkan > ichi4.kijun) /\ (last4.close > ichi4.cloud_top)

\* BuyCond without the test of buy_done_4h.
BuyCondNoDedup(ss, f) ==
    buy_cond_4h(ss, f) /\ ~ss.in_position

BuyCond(ss, f) ==
    buy_cond_4h(ss, f) /\ ~ss.in_position /\ ss.buy_done_4h # ss.setup_id

\* BuyWrite without the write of in_position.
BuyWriteNoPosition(ss) ==
    [ss EXCEPT !.buy_done_4h = ss.setup_id]

\* BuyWrite without the write of buy_done_4h.
BuyWriteNoDedup(ss) ==
    [ss EXCEPT !.in_position = TRUE]

BuyWrite(ss) ==
    [ss EXCEPT !.buy_done_4h = ss.setup_id, !.in_position = TRUE]

sell_cond_15m(f) ==
    LET ichi15 == f.tf15.ichi
        last15 == ClosedLast(f.tf15.closed)
    IN (ichi15.tenkan < ichi15.kijun) \/ (last15.close < ichi15.kijun)

\* SellCond without the test of in_position.
SellCondNoPosition(ss, f) ==
    sell_cond_15m(f) /\ ss.sell_done_15m # ss.setup_id

SellCond(ss, f) ==
    ss.in_position /\ sell_cond_15m(f) /\ ss.sell_done_15m # ss.setup_id

SellWrite(ss) ==
    [ss EXCEPT !.sell_done_15m = ss.setup_id, !.in_position = FALSE]

\* An alert handed to tg_send_text: its kind, the setup_id it is recorded
\* under, and the cycle id of the 1D candle last closed in the call's frame.
Alert(kind, setup_id, cycle) ==
    [kind |-> kind, setup_id |-> setup_id, cycle |-> cycle]

(***************************************************************************)
(* The segments of handle_signals between its awaits.  Each runs from a    *)
(* stage to the next tg_send_text (pc "send_*", the state already written  *)
(* and the alert handed to the notifier) or to the return (pc "ret").      *)
(***************************************************************************)
Returned(ss) == [ss |-> ss, alert |-> None, pc |-> "ret"]

SellSeg(ss, f, cycle) ==
    IF SellCond(ss, f)
    THEN [ss |-> SellWrite(ss), alert |-> Alert("SELL", ss.setup_id, cycle),
          pc |-> "send_sell"]
    ELSE Returned(ss)

BuySeg(ss, f, cycle) ==
    IF BuyCond(ss, f)
    THEN [ss |-> BuyWrite(ss), alert |-> Alert("BUY", ss.setup_id, cycle),
          pc |-> "send_buy"]
    ELSE SellSeg(ss, f, cycle)

\* An ARM stage that would send before it writes.
ArmSegSendFirst(ss, f, cycle) ==
    IF ArmCond(ss, f, cycle)
    THEN [ss |-> ss, alert |-> Alert("ARM", cycle, cycle), pc |-> "send_arm"]
    ELSE BuySeg(ss, f, cycle)

ArmSeg(ss, f, cycle) ==
    IF ArmCond(ss, f, cycle)
    THEN [ss |-> ArmWrite(ss, cycle), alert |-> Alert("ARM", cycle, cycle),
          pc |-> "send_arm"]
    ELSE BuySeg(ss, f, cycle)

\* The segment that follows a tg_send_text that returned.
ResumeSeg(pc, ss, f, cycle) ==
    CASE pc = "send_arm" -> BuySeg(ss, f, cycle)
      [] pc = "send_buy" -> SellSeg(ss, f, cycle)
      [] pc = "send_sell" -> Returned(ss)

\* if not ichi1 or not ichi4 or not ichi15: return
Insufficient(f) ==
    IchiOf(f.tf1) = None \/ IchiOf(f.tf4) = None \/ IchiOf(f.tf15) = None

Frame(c, symbol) ==
    [tf1 |-> CacheGet(c, symbol, "1d"), tf4 |-> CacheGet(c, symbol, "4h"),
     tf15 |-> CacheGet(c, symbol, "15m")]

\* handle_signals from its first line to its first await or its return.
CallSeg(ss, f, symbol) ==
    IF Insufficient(f) THEN Returned(ss) ELSE ArmSeg(ss, f, SetupId(symbol, f))

\* A handle_signals that would arm only at a price that reached the 1D close.
CallSegPriced(ss, f, symbol, price) ==
    IF Insufficient(f) \/ price < ClosedLast(f.tf1.closed).close
    THEN Returned(ss)
    ELSE ArmSeg(ss, f, SetupId(symbol, f))

\* The first segment as loop_prices calls it, handle_signals(session, st,
\* symbol, price, cache): the body never reads its price parameter.
CallSegAt(ss, f, symbol, price) == CallSeg(ss, f, symbol)

\* handle_signals from the segment seg on, run to its end: its sends are
\* numbered from n and the failAt-th raises (none if there is no such send).
\* The result is the symbol's state left and the alerts handed to
\* tg_send_text, in order.
RECURSIVE RunSegs(_, _, _, _, _)
RunSegs(seg, f, cycle, n, failAt) ==
    IF seg.pc = "ret" THEN [ss |-> seg.ss, alerts |-> <<>>]
    ELSE IF n = failAt THEN [ss |-> seg.ss, alerts |-> <<seg.alert>>]
    ELSE LET rest == RunSegs(ResumeSeg(seg.pc, seg.ss, f, cycle), f, cycle,
                             n + 1, failAt)
         IN [ss |-> rest.ss, alerts |-> <<seg.alert>> \o rest.alerts]

handle_signals(ss, f, symbol, failAt) ==
    IF Insufficient(f) THEN [ss |-> ss, alerts |-> <<>>]
    ELSE RunSegs(CallSeg(ss, f, symbol), f, SetupId(symbol, f), 1, failAt)

(***************************************************************************)
(* Inputs from the exchange.                                               *)
(***************************************************************************)
\* TOP_N
TOP_N == 50

Range(u) == {u[a] : a \in 1..Len(u)}

\* The prices get_price_map reports; handle_signals reads none of them.
Prices == {1000}

\* What get_price_map can return for syms: the items of a dict whose keys are
\* among syms, in the order of the exchange's answer.
PriceMaps(syms, prices) ==
    {m \in UNION {[1..n -> Range(syms) \X prices] : n \in 0..Cardinality(Range(syms))} :
        \A a, b \in 1..Len(m) : a # b => m[a][1] # m[b][1]}

\* The responses get_klines can return now for the price shapes served: a
\* full history, or one candle short of an Ichimoku snapshot.
Feeds(shapes) == {FullFeed(sh, LastClosedPeriod("1d")) : sh \in shapes}

ShortFeeds ==
    {[n |-> MIN_CLOSED, shape |-> "flat", T |-> LastClosedPeriod("1d")]}

(***************************************************************************)
(* History helpers.                                                        *)
(***************************************************************************)
StageFields(ss) ==
    [setup_id |-> ss.setup_id, armed_1d |-> ss.armed_1d,
     buy_done_4h |-> ss.buy_done_4h, sell_done_15m |-> ss.sell_done_15m,
     in_position |-> ss.in_position]

\* The stage fields a tick of the symbol reads (a missing entry reads as the
\* fresh state sym_state creates).
StageOf(symbols, symbol) ==
    IF symbol \in DOMAIN symbols THEN StageFields(symbols[symbol])
    ELSE StageFields(FreshSymbolState)

Emit(log, symbol, alert) ==
    IF alert = None THEN log ELSE [log EXCEPT ![symbol] = Append(@, alert)]

(***************************************************************************)
(* Verdict bot (src/muboh_bot.py): texts.  A string is the sequence of its *)
(* characters and a message text is the list of its whitespace-separated   *)
(* tokens, text.strip().split(); the empty string and None are both <<>>.  *)
(***************************************************************************)
UpperCase == <<"A", "B", "C", "D", "E", "F", "G", "H", "I", "J", "K", "L", "M", "N", "O", "P", "Q", "R", "S", "T", "U", "V", "W", "X", "Y", "Z">>
LowerCase == <<"a", "b", "c", "d", "e", "f", "g", "h", "i", "j", "k", "l", "m", "n", "o", "p", "q", "r", "s", "t", "u", "v", "w", "x", "y", "z">>

\* str.upper() and str.lower(), character by character
UpperOf ==
    [ch \in Range(LowerCase) |-> UpperCase[CHOOSE i \in 1..26 : LowerCase[i] = ch]]
LowerOf ==
    [ch \in Range(UpperCase) |-> LowerCase[CHOOSE i \in 1..26 : UpperCase[i] = ch]]
UpperChar(ch) == IF ch \in DOMAIN UpperOf THEN UpperOf[ch] ELSE ch
LowerChar(ch) == IF ch \in DOMAIN LowerOf THEN LowerOf[ch] ELSE ch
UpperStr(s) == [i \in 1..Len(s) |-> UpperChar(s[i])]
LowerStr(s) == [i \in 1..Len(s) |-> LowerChar(s[i])]

\* [A-Z0-9] and \w
TickerChars ==
    Range(UpperCase) \cup {"0", "1", "2", "3", "4", "5", "6", "7", "8", "9"}
WordChars == TickerChars \cup Range(LowerCase) \cup {"_"}

\* TICKER_RE = ^[A-Z0-9]{2,12}$
TICKER_RE(token) ==
    /\ Len(token) \in 2..12
    /\ \A i \in 1..Len(token) : token[i] \in TickerChars

\* re.search(r"\bWORD\b", text, IGNORECASE): the word inside some token,
\* with no word character on either side.
HasWord(text, word) ==
    \E a \in 1..Len(text) :
        LET tok == text[a]
        IN \E i \in 1..(Len(tok) - Len(word) + 1) :
              /\ UpperStr(SubSeq(tok, i, i + Len(word) - 1)) = word
              /\ i > 1 => tok[i - 1] \notin WordChars
              /\ i + Len(word) <= Len(tok) => tok[i + Len(word)] \notin WordChars

\* \bMUBOH\b
MUBOH_RE(text) == HasWord(text, <<"M", "U", "B", "O", "H">>)
\* \b(NOMUBOH|HAROM|SHUBHA|MASHKUK)\b
NOMUBOH_RE(text) ==
    \E w \in {<<"N", "O", "M", "U", "B", "O", "H">>,
              <<"H", "A", "R", "O", "M">>,
              <<"S", "H", "U", "B", "H", "A">>,
              <<"M", "A", "S", "H", "K", "U", "K">>} :
        HasWord(text, w)

extract_first_ticker(text) ==
    IF text = <<>> THEN None
    ELSE LET token == UpperStr(text[1])
         IN IF TICKER_RE(token) THEN token ELSE None

\* re.match(r"^([A-Z0-9]{2,12})\s*[-\u2013]\s*", text.strip().upper()): the
\* leading run of ticker characters, followed by a dash ("-" or the en dash
\* U+2013) in the same token or at the start of the next one.
DashTicker(text) ==
    IF text = <<>> THEN None
    ELSE LET t1 == UpperStr(text[1])
             Dashes == {"-", "en dash"}
             ks == {k \in 2..12 :
                      /\ k <= Len(t1)
                      /\ \A i \in 1..k : t1[i] \in TickerChars
                      /\ IF k < Len(t1) THEN t1[k + 1] \in Dashes
                         ELSE Len(text) >= 2 /\ text[2][1] \in Dashes}
         IN IF ks = {} THEN None ELSE SubSeq(t1, 1, CHOOSE k \in ks : TRUE)

\* (hukm, detail); t[:800] keeps the whole of the short texts of the model.
extract_hukm_from_text(text) ==
    IF text = <<>> THEN [hukm |-> "UNKNOWN", detail |-> <<>>]
    ELSE IF NOMUBOH_RE(text) THEN [hukm |-> "NOMUBOH", detail |-> text]
    ELSE IF MUBOH_RE(text) THEN [hukm |-> "MUBOH", detail |-> text]
    ELSE [hukm |-> "UNKNOWN", detail |-> text]

looks_like_hukm_message(text) ==
    IF text = <<>> THEN FALSE ELSE MUBOH_RE(text) \/ NOMUBOH_RE(text)

(***************************************************************************)
(* Verdict bot: who a message comes from.  A user or chat is a record with *)
(* a username (<<>> if it has none); a message has a sender, and the       *)
(* origin of a forward as a user, as a chat, or not at all.                *)
(***************************************************************************)
HukmCrypto_bot == <<"H", "u", "k", "m", "C", "r", "y", "p", "t", "o", "_", "b", "o", "t">>

\* The entries of os.getenv("TRUST_SOURCE_USERNAMES", "@HukmCrypto_bot")
\* .split(","), the empty ones dropped, in lower case.
TRUST_SOURCE_USERNAMES ==
    LET env == <<<<"@">> \o HukmCrypto_bot>>
    IN {LowerStr(env[a]) : a \in {b \in 1..Len(env) : env[b] # <<>>}}

get_source_username(msg) ==
    IF msg.forward_from # None /\ msg.forward_from.username # <<>>
    THEN <<"@">> \o LowerStr(msg.forward_from.username)
    ELSE IF msg.forward_from_chat # None /\ msg.forward_from_chat.username # <<>>
    THEN <<"@">> \o LowerStr(msg.forward_from_chat.username)
    ELSE IF msg.from_user # None /\ msg.from_user.username # <<>>
    THEN <<"@">> \o LowerStr(msg.from_user.username)
    ELSE <<>>

BTC == <<"B", "T", "C">>
ETH == <<"E", "T", "H">>

(***************************************************************************)
(* The verdict bot at its start: no DB_FILE yet, no update handled.        *)
(***************************************************************************)
Tickers == {BTC, ETH}

InitBot ==
    /\ dbFile = None
    /\ wall = Epoch
    /\ pcMsg = "idle"
    /\ cur = None
    /\ sent = [t \in Tickers |-> <<>>]

(***************************************************************************)
(* Init: main() after load_state found no state file, the start message    *)
(* was sent and the three tasks ran to their first await.                  *)
(***************************************************************************)
InitLoops ==
    /\ clock = 0
    /\ st = [symbols |-> <<>>, top_symbols |-> <<>>, last_top_refresh_ms |-> 0]
    /\ disk = None
    /\ cache = <<>>
    /\ pcTop = "fetch"
    /\ pcKl = "idle"
    /\ kl = [syms |-> <<>>, i |-> 0, j |-> 0, tnow |-> 0]
    /\ pcPr = "idle"
    /\ pr = [syms |-> <<>>, price_map |-> <<>>, i |-> 0, f |-> None]
    /\ alerts = [s \in Symbols |-> <<>>]
    /\ klPass = [due |-> {}, failed |-> {}, ended |-> FALSE]
    /\ prPass = [called |-> {}, errors |-> {}, ended |-> FALSE]
    /\ tick = [s \in Symbols |-> StageFields(FreshSymbolState)]

Init == InitLoops /\ probe = None /\ InitBot

Running == ~\E p \in {pcTop, pcKl, pcPr} : p \in {"dead", "cancelled"}

\* A day passes on the wall clock.
Tick ==
    /\ Running
    /\ clock < MaxDay
    /\ clock' = clock + 1
    /\ UNCHANGED <<st, disk, cache, pcTop, pcKl, kl, pcPr, pr, alerts,
                   klPass, prPass, tick>>
    /\ UNCHANGED <<probe, botVars>>

(***************************************************************************)
(* loop_refresh_top                                                        *)
(***************************************************************************)
\* get_top_gainers returned syms, one of the rankings universes the exchange
\* can answer with: the universe is replaced and saved; the task then sleeps
\* and awaits the next get_top_gainers.
TopFetchOk(universes) ==
    /\ pcTop = "fetch"
    /\ \E syms \in universes :
          /\ Len(syms) <= TOP_N
          /\ st' = [st EXCEPT !.top_symbols = syms, !.last_top_refresh_ms = now_ms]
    /\ disk' = save_state(st')
    /\ UNCHANGED <<clock, cache, pcTop, pcKl, kl, pcPr, pr, alerts,
                   klPass, prPass, tick>>
    /\ UNCHANGED <<probe, botVars>>

\* get_top_gainers raised: the except branch awaits tg_send_text.
TopFetchFail ==
    /\ pcTop = "fetch"
    /\ pcTop' = "report"
    /\ UNCHANGED <<clock, st, disk, cache, pcKl, kl, pcPr, pr, alerts,
                   klPass, prPass, tick>>
    /\ UNCHANGED <<probe, botVars>>

TopReportOk ==
    /\ pcTop = "report"
    /\ pcTop' = "fetch"
    /\ UNCHANGED <<clock, st, disk, cache, pcKl, kl, pcPr, pr, alerts,
                   klPass, prPass, tick>>
    /\ UNCHANGED <<probe, botVars>>

\* tg_send_text raised inside the except branch: the exception leaves the
\* while loop and ends the task.
TopReportFail ==
    /\ pcTop = "report"
    /\ pcTop' = "dead"
    /\ UNCHANGED <<clock, st, disk, cache, pcKl, kl, pcPr, pr, alerts,
                   klPass, prPass, tick>>
    /\ UNCHANGED <<probe, botVars>>

(***************************************************************************)
(* loop_refresh_klines and refresh_tf_cache                                *)
(***************************************************************************)
\* if entry and (tnow - entry["t"] < int(REFRESH_KLINES_SEC * 1000)): continue
\* tnow and t are the day parts of the two readings of the wall clock, gap
\* the difference of their parts below a day.
IsFresh(entry, tnow, gap) ==
    entry # None /\ (tnow - entry.t) + gap < REFRESH_KLINES_MS

Pairs(syms) == Range(syms) \X TFSet

\* The pairs whose entry was fetched on the current day: whether the
\* interval has elapsed since is an input.
SameDay(syms, c) == {p \in Pairs(syms) : IsFresh(CacheGet(c, p[1], p[2]), now_ms, 0)}

Gap(young, symbol, tf) == IF <<symbol, tf>> \in young THEN 0 ELSE REFRESH_KLINES_MS

\* The inputs of a scan: the loop meets a run of pairs still younger than
\* the interval, up to the first pair (the k-th of the pass) that is not.
TfIndex(tf) == CHOOSE j \in 1..Len(TFs) : TFs[j] = tf
SymIndex(syms, symbol) == CHOOSE i \in 1..Len(syms) : syms[i] = symbol
Pos(syms, p) == (SymIndex(syms, p[1]) - 1) * Len(TFs) + TfIndex(p[2])
YoungRuns(syms, c) ==
    {{p \in SameDay(syms, c) : Pos(syms, p) < k} :
        k \in 1..(Len(syms) * Len(TFs) + 1)}

\* The pass from timeframe j of symbol i on, up to the next await: pairs with
\* a fresh entry are skipped; the result is the pair whose get_klines is
\* awaited (pc "fetch") or the end of the for loop (pc "end").  young is the
\* set of pairs the wall clock shows, when the loop reaches them, to be
\* younger than the interval.
RECURSIVE KlScan(_, _, _, _, _)
KlScan(syms, i, j, c, young) ==
    IF i > Len(syms) THEN [pc |-> "end", i |-> i, j |-> j, cache |-> c]
    ELSE IF j > Len(TFs) THEN KlScan(syms, i + 1, 1, c, young)
    ELSE LET c1 == SetDefault(c, syms[i])
         IN IF IsFresh(CacheGet(c1, syms[i], TFs[j]), now_ms,
                       Gap(young, syms[i], TFs[j]))
            THEN KlScan(syms, i, j + 1, c1, young)
            ELSE [pc |-> "fetch", i |-> i, j |-> j, cache |-> c1]

\* The entry refresh_tf_cache stores for the fetched candles.
NewEntry(tnow, d) ==
    IF ClosedLen(d) < MIN_CLOSED
    THEN [t |-> tnow, closed |-> d, ichi |-> None]
    ELSE [t |-> tnow, closed |-> d, ichi |-> LinesOf(d)]

\* A refresh that would store the open time in a newly created state dict,
\* dropping the stage fields of the symbol.
StoreLastClosedFresh(symbols, symbol, tf, open_time) ==
    LET s1 == [sym_state(symbols, symbol) EXCEPT ![symbol] = FreshSymbolState]
    IN CASE tf = "1d" -> [s1 EXCEPT ![symbol].last_1d_closed_open = <<open_time>>]
         [] tf = "4h" -> [s1 EXCEPT ![symbol].last_4h_closed_open = <<open_time>>]
         [] tf = "15m" -> [s1 EXCEPT ![symbol].last_15m_closed_open = <<open_time>>]

\* ss = sym_state(st, symbol); ss["last_<tf>_closed_open"] = lc.open_time
StoreLastClosed(symbols, symbol, tf, open_time) ==
    LET s1 == sym_state(symbols, symbol)
    IN CASE tf = "1d" -> [s1 EXCEPT ![symbol].last_1d_closed_open = <<open_time>>]
         [] tf = "4h" -> [s1 EXCEPT ![symbol].last_4h_closed_open = <<open_time>>]
         [] tf = "15m" -> [s1 EXCEPT ![symbol].last_15m_closed_open = <<open_time>>]

\* st["symbols"] after refresh_tf_cache stored the entry of (symbol, tf).
SymbolsAfterRefresh(symbols, symbol, tf, entry) ==
    IF entry.ichi = None THEN symbols
    ELSE StoreLastClosed(symbols, symbol, tf, ClosedLast(entry.closed).open_time)

\* The loop goes on from the scan result r: to the next get_klines, or past
\* the for loop to save_state and the sleep.
KlContinue(syms, r, stNow, pass) ==
    /\ cache' = r.cache
    /\ st' = stNow
    /\ IF r.pc = "fetch"
       THEN /\ pcKl' = "fetch"
            /\ kl' = [syms |-> syms, i |-> r.i, j |-> r.j, tnow |-> now_ms]
            /\ klPass' = pass
            /\ disk' = disk
       ELSE /\ pcKl' = "idle"
            /\ kl' = [syms |-> syms, i |-> r.i, j |-> r.j, tnow |-> kl.tnow]
            /\ klPass' = [pass EXCEPT !.ended = TRUE]
            /\ disk' = save_state(stNow)

\* The sleep is over: a new pass starts, unless the universe is still empty.
KlStart ==
    /\ pcKl = "idle"
    /\ LET syms == st.top_symbols
       IN IF syms = <<>>
          THEN UNCHANGED <<st, disk, cache, pcKl, kl, klPass>>
          ELSE \E young \in YoungRuns(syms, cache) :
                  KlContinue(syms, KlScan(syms, 1, 1, cache, young), st,
                             [due |-> Pairs(syms) \ SameDay(syms, cache),
                              failed |-> {}, ended |-> FALSE])
    /\ UNCHANGED <<clock, pcTop, pcPr, pr, alerts, prPass, tick>>
    /\ UNCHANGED <<probe, botVars>>

\* get_klines returned the candles described by d.
KlFetchOk(feeds) ==
    /\ pcKl = "fetch"
    /\ LET symbol == kl.syms[kl.i]
           tf == TFs[kl.j]
       IN \E d \in feeds[tf], young \in YoungRuns(kl.syms, cache) :
            LET entry == NewEntry(kl.tnow, d)
                c1 == CachePut(cache, symbol, tf, entry)
            IN KlContinue(kl.syms,
                          KlScan(kl.syms, kl.i, kl.j + 1, c1, young),
                          [st EXCEPT !.symbols =
                              SymbolsAfterRefresh(@, symbol, tf, entry)],
                          [klPass EXCEPT !.due = @ \ {<<symbol, tf>>}])
    /\ UNCHANGED <<clock, pcTop, pcPr, pr, alerts, prPass, tick>>
    /\ UNCHANGED <<probe, botVars>>

\* get_klines raised: the exception leaves refresh_tf_cache and is caught in
\* loop_refresh_klines, which goes on with the next symbol.
KlFetchFail ==
    /\ pcKl = "fetch"
    /\ \E young \in YoungRuns(kl.syms, cache) :
          KlContinue(kl.syms, KlScan(kl.syms, kl.i + 1, 1, cache, young), st,
                     [klPass EXCEPT !.failed = @ \cup {<<kl.syms[kl.i], TFs[kl.j]>>}])
    /\ UNCHANGED <<clock, pcTop, pcPr, pr, alerts, prPass, tick>>
    /\ UNCHANGED <<probe, botVars>>

(***************************************************************************)
(* loop_prices and handle_signals                                          *)
(***************************************************************************)
SendStates == {"send_arm", "send_buy", "send_sell"}

\* for symbol, price in price_map.items(): after item i the loop calls
\* handle_signals for the next item or, past the last one, saves the state
\* and sleeps.
PrContinue(i, price_map, stNow, pass) ==
    /\ pr' = [pr EXCEPT !.price_map = price_map, !.i = i + 1, !.f = None]
    /\ IF i < Len(price_map)
       THEN /\ pcPr' = "call"
            /\ prPass' = pass
            /\ disk' = disk
       ELSE /\ pcPr' = "idle"
            /\ prPass' = [pass EXCEPT !.ended = TRUE]
            /\ disk' = save_state(stNow)

\* A loop without the try around the call of handle_signals.
OnSignalErrorPropagated == "propagated"

\* Where an exception raised by handle_signals goes: the try around the call
\* catches it (except Exception as e: print("signal error", symbol, e)).
OnSignalError == "caught"

\* The sleep is over: a new scan starts, unless the universe is still empty.
PrStart ==
    /\ pcPr = "idle"
    /\ LET syms == st.top_symbols
       IN IF syms = <<>>
          THEN UNCHANGED <<pcPr, pr, prPass>>
          ELSE /\ pcPr' = "prices"
               /\ pr' = [pr EXCEPT !.syms = syms]
               /\ prPass' = [called |-> {}, errors |-> {}, ended |-> FALSE]
    /\ UNCHANGED <<clock, st, disk, cache, pcTop, pcKl, kl, alerts, klPass, tick>>
    /\ UNCHANGED <<probe, botVars>>

\* get_price_map returned.
PrPricesOk(prices) ==
    /\ pcPr = "prices"
    /\ \E m \in PriceMaps(pr.syms, prices) : PrContinue(0, m, st, prPass)
    /\ UNCHANGED <<clock, st, cache, pcTop, pcKl, kl, alerts, klPass, tick>>
    /\ UNCHANGED <<probe, botVars>>

\* get_price_map raised: the outer except branch awaits tg_send_text.
PrPricesFail ==
    /\ pcPr = "prices"
    /\ pcPr' = "report"
    /\ UNCHANGED <<clock, st, disk, cache, pcTop, pcKl, kl, pr, alerts,
                   klPass, prPass, tick>>
    /\ UNCHANGED <<probe, botVars>>

\* A handle_signals that would read the cache again after each await.
ResumeFrameReread(f, c, symbol) == Frame(c, symbol)

\* The snapshots handle_signals goes on with after an await: tf1, tf4, tf15
\* and ichi1, ichi4, ichi15 are local names bound at the start of the call to
\* the entries f read then, whatever the cache c holds now.
ResumeFrame(f, c, symbol) == f

\* The state after a segment seg of handle_signals for the current item:
\* the symbol's state written, the alert handed to tg_send_text, and the
\* coroutine either suspended in the send or returned to the for loop.
HsStep(symbol, f, seg, pass) ==
    LET stNow == [st EXCEPT !.symbols =
                     [sym_state(@, symbol) EXCEPT ![symbol] = seg.ss]]
    IN /\ st' = stNow
       /\ alerts' = Emit(alerts, symbol, seg.alert)
       /\ tick' = [tick EXCEPT ![symbol] = StageFields(seg.ss)]
       /\ IF seg.pc = "ret"
          THEN PrContinue(pr.i, pr.price_map, stNow, pass)
          ELSE /\ pcPr' = seg.pc
               /\ pr' = [pr EXCEPT !.f = f]
               /\ prPass' = pass
               /\ disk' = disk

\* handle_signals is called for the current item and runs to its first
\* await or to its return.
HsCall ==
    /\ pcPr = "call"
    /\ LET symbol == pr.price_map[pr.i][1]
           ss == sym_state(st.symbols, symbol)[symbol]
           f == Frame(cache, symbol)
           price == pr.price_map[pr.i][2]
       IN HsStep(symbol, f, CallSegAt(ss, f, symbol, price),
                 [prPass EXCEPT !.called = @ \cup {symbol}])
    /\ UNCHANGED <<clock, cache, pcTop, pcKl, kl, klPass>>
    /\ UNCHANGED <<probe, botVars>>

\* tg_send_text returned: handle_signals goes on with the stages that follow.
HsSendOk ==
    /\ pcPr \in SendStates
    /\ LET symbol == pr.price_map[pr.i][1]
           f == ResumeFrame(pr.f, cache, symbol)
       IN HsStep(symbol, f,
                 ResumeSeg(pcPr, st.symbols[symbol], f, SetupId(symbol, f)),
                 prPass)
    /\ UNCHANGED <<clock, cache, pcTop, pcKl, kl, klPass>>
    /\ UNCHANGED <<probe, botVars>>

\* tg_send_text raised: the exception leaves handle_signals.  Caught around
\* the call, the for loop goes on; otherwise it would reach the outer except
\* branch, which awaits tg_send_text.
HsSendFail ==
    /\ pcPr \in SendStates
    /\ LET pass == [prPass EXCEPT !.errors = @ \cup {pr.price_map[pr.i][1]}]
       IN IF OnSignalError = "caught"
          THEN PrContinue(pr.i, pr.price_map, st, pass)
          ELSE /\ pcPr' = "report"
               /\ pr' = [pr EXCEPT !.f = None]
               /\ prPass' = pass
               /\ disk' = disk
    /\ UNCHANGED <<clock, st, cache, pcTop, pcKl, kl, alerts, klPass, tick>>
    /\ UNCHANGED <<probe, botVars>>

PrReportOk ==
    /\ pcPr = "report"
    /\ pcPr' = "idle"
    /\ UNCHANGED <<clock, st, disk, cache, pcTop, pcKl, kl, pr, alerts,
                   klPass, prPass, tick>>
    /\ UNCHANGED <<probe, botVars>>

\* tg_send_text raised inside the outer except branch: the exception leaves
\* the while loop and ends the task.
PrReportFail ==
    /\ pcPr = "report"
    /\ pcPr' = "dead"
    /\ UNCHANGED <<clock, st, disk, cache, pcTop, pcKl, kl, pr, alerts,
                   klPass, prPass, tick>>
    /\ UNCHANGED <<probe, botVars>>

(***************************************************************************)
(* main: asyncio.gather re-raises the exception of a task that ended;      *)
(* main() returns and asyncio.run cancels the tasks still pending, each    *)
(* at the await it is suspended in.                                        *)
(***************************************************************************)
Cancel(p) == IF p = "dead" THEN p ELSE "cancelled"

MainExit ==
    /\ "dead" \in {pcTop, pcKl, pcPr}
    /\ \E p \in {pcTop, pcKl, pcPr} : p \notin {"dead", "cancelled"}
    /\ pcTop' = Cancel(pcTop)
    /\ pcKl' = Cancel(pcKl)
    /\ pcPr' = Cancel(pcPr)
    /\ UNCHANGED <<clock, st, disk, cache, kl, pr, alerts, klPass, prPass, tick>>
    /\ UNCHANGED <<probe, botVars>>

(***************************************************************************)
(* Specifications.                                                         *)
(***************************************************************************)
\* The three loops over both listed symbols, with every failure of the
\* exchange and of the notifier, within one day: BNBUSDT stays in the
\* ranking, ADAUSDT drops out of it and comes back, and the exchange serves
\* daily candles on which a cycle is armed.
LoopUniverses == {<<"ADAUSDT", "BNBUSDT">>, <<"BNBUSDT">>}

LoopFeeds ==
    [tf \in TFSet |-> Feeds(IF tf = "1d" THEN {"near"} ELSE {"flat"})]

Next ==
    \/ TopFetchOk(LoopUniverses) \/ TopFetchFail \/ TopReportOk \/ TopReportFail
    \/ KlStart \/ KlFetchOk(LoopFeeds) \/ KlFetchFail
    \/ PrStart \/ PrPricesOk(Prices) \/ PrPricesFail
    \/ HsCall \/ HsSendOk \/ HsSendFail
    \/ PrReportOk \/ PrReportFail
    \/ MainExit

Spec == Init /\ [][Next]_vars

\* The cascade of one symbol: the ranking holds ADAUSDT alone and the
\* exchange serves,
\* per timeframe, the shapes that decide the stage read on it.
CascadeFeeds ==
    [tf \in TFSet |->
        Feeds(CASE tf = "1d" -> {"near", "flat"}
                [] tf = "4h" -> {"above", "flat"}
                [] tf = "15m" -> {"down", "flat"})
        \cup (IF tf = "1d" THEN ShortFeeds ELSE {})]

NextCascade ==
    \/ Tick
    \/ TopFetchOk({<<"ADAUSDT">>})
    \/ KlStart \/ KlFetchOk(CascadeFeeds)
    \/ PrStart \/ PrPricesOk(Prices)
    \/ HsCall \/ HsSendOk \/ HsSendFail

SpecCascade == Init /\ [][NextCascade]_vars

(***************************************************************************)
(* Properties.  alerts[s] is the sequence of the alerts handle_signals     *)
(* handed to tg_send_text for s, in order, whether or not the send         *)
(* succeeded.                                                              *)
(***************************************************************************)
Kinds(log, kind) == {k \in 1..Len(log) : log[k].kind = kind}

\* C1: for every symbol and cycle id, with the 1D last-closed open time
\* never decreasing, at most one ARM, one BUY and one SELL alert is
\* recorded under that cycle id.
C1_AtMostOncePerCycle ==
    \A s \in Symbols : \A a, b \in 1..Len(alerts[s]) :
        (a # b /\ alerts[s][a].kind = alerts[s][b].kind)
            => alerts[s][a].setup_id # alerts[s][b].setup_id

\* C1 happens: a symbol went through ARM, BUY and SELL of the cycle of day
\* 0 and was armed again in the cycle of day 1.
C1_Witness ==
    \E s \in Symbols :
        LET log == alerts[s]
        IN /\ \E k \in Kinds(log, "SELL") : log[k].setup_id = <<s, 0>>
           /\ \E k \in Kinds(log, "ARM") : log[k].setup_id = <<s, 1>>
           /\ Cardinality(Kinds(log, "ARM")) = 2

\* C2 (as stated): a BUY is only ever emitted while the arming belongs to
\* the cycle id of the daily candle that is last closed at that tick: no
\* stage field still holds the previous cycle id once a newer daily candle
\* closed.
C2_BuyInCurrentCycle ==
    \A s \in Symbols : \A k \in Kinds(alerts[s], "BUY") :
        alerts[s][k].setup_id = alerts[s][k].cycle

\* C3: from a fresh symbol state, every BUY is preceded by an ARM under the
\* same setup_id, every SELL by a BUY with no other SELL in between, every
\* BUY but the first by a SELL after the BUY before it, and in_position is
\* true exactly from a BUY until the following SELL.
C3_StageOrder ==
    \A s \in Symbols :
        LET log == alerts[s]
            Between(j, k) == {m \in 1..Len(log) : j < m /\ m < k}
        IN /\ \A k \in Kinds(log, "BUY") :
                /\ \E j \in Kinds(log, "ARM") :
                      j < k /\ log[j].setup_id = log[k].setup_id
                /\ \A j \in Kinds(log, "BUY") :
                      j < k => Between(j, k) \cap Kinds(log, "SELL") # {}
           /\ \A k \in Kinds(log, "SELL") :
                \E j \in Kinds(log, "BUY") :
                    j < k /\ Between(j, k) \cap Kinds(log, "SELL") = {}
           /\ StageOf(st.symbols, s).in_position
                = (\E j \in Kinds(log, "BUY") :
                      \A k \in Kinds(log, "SELL") : k < j)

\* C3 happens: a symbol went through ARM, BUY, SELL and is in position
\* again after a second BUY.
C3_Witness ==
    \E s \in Symbols :
        /\ Cardinality(Kinds(alerts[s], "BUY")) = 2
        /\ Kinds(alerts[s], "SELL") # {}
        /\ StageOf(st.symbols, s).in_position

\* The two runs of C4: handle_signals run on the symbol's state and the
\* snapshots now in the cache, then run again on the state left, the
\* fail1-th send of the first run and the fail2-th of the second raising.
TwoRuns(s, fail1, fail2) ==
    LET f == Frame(cache, s)
        r1 == handle_signals(st.symbols[s], f, s, fail1)
    IN [first |-> r1, second |-> handle_signals(r1.ss, f, s, fail2)]

SendFails == 0..3

C5_DroppedSymbolsPruned ==
    [][st'.top_symbols # st.top_symbols
          => DOMAIN st'.symbols \subseteq Range(st'.top_symbols)]_vars

\* C6 (as stated): a call of handle_signals that finds a snapshot missing
\* emits no alert and leaves st unchanged, the keys of st["symbols"]
\* included.
C6_InsufficientIsNoOp ==
    [][(/\ pcPr = "call"
        /\ pr' # pr
        /\ Insufficient(Frame(cache, pr.price_map[pr.i][1])))
          => (st' = st /\ alerts' = alerts)]_vars

\* C7 (as stated): at the end of a pass of loop_refresh_klines, every pair
\* that was due at its start, but those whose own fetch failed, has been
\* refreshed.
C7_OtherPairsRefreshed ==
    klPass.ended => klPass.due \subseteq klPass.failed

\* C8 (as stated): whichever call of tg_send_text raises, none of the three
\* loops terminates.
C8_NoLoopTerminates ==
    \A p \in {pcTop, pcKl, pcPr} : p \notin {"dead", "cancelled"}

Keys(price_map) == {price_map[a][1] : a \in 1..Len(price_map)}

\* C9: a scan whose price map was fetched ends only after handle_signals
\* was called for every symbol of the price map, whatever was raised for
\* the others, and it ends by saving the state; an exception of
\* handle_signals never reaches the outer except branch.
C9_ScanIsolation ==
    /\ [](pcPr \in {"report", "idle"} /\ prPass.called # {} => prPass.ended)
    /\ [][(~prPass.ended /\ prPass'.ended)
            => /\ prPass'.called = Keys(pr'.price_map)
               /\ disk' = save_state(st')]_vars

\* C9 happens: a scan of two symbols ended after the send of the first
\* one's alert raised.
C9_Witness ==
    /\ prPass.ended
    /\ Len(pr.price_map) = 2
    /\ prPass.errors = {pr.price_map[1][1]}
    /\ prPass.called = Keys(pr.price_map)

\* C10: no task but the tick of a symbol writes its stage fields, also
\* while that tick is suspended in a send: the stage fields are always those
\* the last segment of handle_signals run for the symbol left.
C10_TickAtomic ==
    \A s \in Symbols : StageOf(st.symbols, s) = tick[s]

\* C10 happens: a tick is suspended in a send while the klines loop has
\* stored a newer daily candle of the same symbol than the one the tick read.
C10_Witness ==
    /\ pcPr \in SendStates
    /\ LET s == pr.price_map[pr.i][1]
       IN st.symbols[s].last_1d_closed_open
            = <<ClosedLast(pr.f.tf1.closed).open_time + 1>>

\* The writers an entry of st["symbols"] shows: only refresh_tf_cache
\* assigns the last_*_closed_open fields, only handle_signals assigns
\* setup_id (with armed_1d, in its ARM branch, before any other stage field).
WrittenByRefresh(ss) ==
    \/ ss.last_1d_closed_open # None
    \/ ss.last_4h_closed_open # None
    \/ ss.last_15m_closed_open # None

WrittenBySignals(ss) == ss.setup_id # None

\* C11 (as stated): the state map st["symbols"] is mutated by exactly one
\* task: no entry of it is written by two different loops.
C11_SingleWriter ==
    \A s \in DOMAIN st.symbols :
        ~(WrittenByRefresh(st.symbols[s]) /\ WrittenBySignals(st.symbols[s]))

(***************************************************************************)
(* The klines loop alone on one symbol, the exchange answering with        *)
(* responses of every length around the two limits of refresh_tf_cache:    *)
(* no candle, the forming candle alone, and one candle less, exactly and   *)
(* one more than an Ichimoku snapshot needs.                               *)
(***************************************************************************)
RefreshLens == {0, 1, MIN_CLOSED, MIN_CLOSED + 1, MIN_CLOSED + 2}

RefreshFeeds ==
    [tf \in TFSet |->
        {[n |-> n, shape |-> "near", T |-> LastClosedPeriod(tf)] : n \in RefreshLens}]

NextRefresh ==
    \/ TopFetchOk({<<"ADAUSDT">>})
    \/ KlStart \/ KlFetchOk(RefreshFeeds) \/ KlFetchFail

SpecRefresh == Init /\ [][NextRefresh]_vars

\* The entries of the cache.
CacheEntries ==
    {cache[s][tf] : <<s, tf>> \in
        {p \in (DOMAIN cache) \X TFSet : p[2] \in DOMAIN cache[p[1]]}}

\* C12: for a fetched sequence of n candles, any n >= 0, the entry stored
\* holds as closed candles exactly the first n-1 of them (none when
\* n <= 1), an absent snapshot if and only if fewer than 80 closed candles
\* remain, and otherwise the snapshot computed from exactly those candles.
C12_RefreshResult ==
    \A e \in CacheEntries :
        LET candles == Klines(e.closed)
            n == Len(candles)
            closed == ClosedOf(e.closed)
        IN /\ Len(closed) = (IF n >= 1 THEN n - 1 ELSE 0)
           /\ \A i \in 1..Len(closed) : closed[i] = candles[i]
           /\ ClosedLen(e.closed) = Len(closed)
           /\ (e.ichi = None) <=> (Len(closed) < 80)
           /\ e.ichi # None => e.ichi = ichimoku_lines(closed)

\* C12 happens: the cache holds an entry stored for an empty response, one
\* stored for 79 closed candles and one stored for 81 closed candles.
C12_Witness ==
    /\ \E e \in CacheEntries : e.closed.n = 0 /\ e.ichi = None
    /\ \E e \in CacheEntries : e.closed.n = 80 /\ e.ichi = None
    /\ \E e \in CacheEntries : e.closed.n = 82 /\ e.ichi # None

\* A step of the price loop in which a send of handle_signals returned.
SendReturned ==
    /\ pcPr \in SendStates
    /\ pcPr' \notin {pcPr, "cancelled"}
    /\ prPass'.errors = prPass.errors

\* C13: a stored entry is never modified in place: a tick suspended at an
\* alert send keeps the entries it read, each with the Ichimoku values of
\* exactly its closed candles, whatever is refreshed meanwhile, and decides
\* BUY and SELL on them when the send returns.
C13_SnapshotsImmutable ==
    /\ [](pcPr \in SendStates =>
            \A e \in {pr.f.tf1, pr.f.tf4, pr.f.tf15} :
                e.ichi = ichimoku_lines(ClosedOf(e.closed)))
    /\ [][(pcPr \in SendStates /\ pcPr' = pcPr) => pr'.f = pr.f]_vars
    /\ [][SendReturned =>
            LET s == pr.price_map[pr.i][1]
                seg == ResumeSeg(pcPr, st.symbols[s], pr.f, SetupId(s, pr.f))
            IN /\ st'.symbols[s] = seg.ss
               /\ alerts' = Emit(alerts, s, seg.alert)]_vars

\* C13 happens: a tick is suspended at the send of its ARM, having read a
\* 4h entry without a buy condition, and the cache now holds a refreshed 4h
\* entry with one.
C13_Witness ==
    /\ pcPr = "send_arm"
    /\ pr.f.tf4.closed.shape = "flat"
    /\ CacheGet(cache, pr.price_map[pr.i][1], "4h").closed.shape = "above"

\* C14 (as stated): two runs of handle_signals on the same tick (the same
\* snapshots), started from the same symbol state, end in identical symbol
\* states and emit identical alert sequences, whatever else differs between
\* the runs: here, which of their sends raises.
C14_Deterministic ==
    \A s \in DOMAIN st.symbols :
        pcPr \notin SendStates =>
            \A fail1, fail2 \in SendFails :
                handle_signals(st.symbols[s], Frame(cache, s), s, fail1)
                    = handle_signals(st.symbols[s], Frame(cache, s), s, fail2)

(***************************************************************************)
(* ichimoku_lines applied to closed-candle lists.  A list is described by  *)
(* its length n, a ramp of the prices along it, and one candle, at         *)
(* distance at from the end, whose high, low or close leaves the ramp: on  *)
(* either side of the end of each lookback window, and at the two candles  *)
(* chikou_ok compares.  Prices are multiples of 4, on which the divisions  *)
(* by 2.0 of the code are exact.                                           *)
(***************************************************************************)
LinesLens == (MIN_CLOSED - 1)..(MIN_CLOSED + MaxExtra)
Ramps == {"up", "down", "flat"}
Outliers == {"high", "low", "close"}
OutlierAt == {0, TENKAN_N - 1, TENKAN_N, KIJUN_N - 1, KIJUN_N,
              SENKOU_B_N - 1, SENKOU_B_N, SENKOU_B_N + 8}

LinesInputs ==
    [n : LinesLens, ramp : Ramps, outlier : Outliers, at : OutlierAt]

LinesInput(x) ==
    [i \in 1..x.n |->
        LET base == CASE x.ramp = "up" -> 400 + 4 * i
                      [] x.ramp = "down" -> 400 + 4 * (x.n - i)
                      [] OTHER -> 400
            out == (x.n - i = x.at)
        IN Candle(i,
                  base + 8 + (IF out /\ x.outlier = "high" THEN 1000 ELSE 0),
                  base - 8 - (IF out /\ x.outlier = "low" THEN 200 ELSE 0),
                  base + (IF out /\ x.outlier = "close" THEN 400 ELSE 0))]

InitLines ==
    /\ InitLoops
    /\ InitBot
    /\ probe \in [input : LinesInputs, applied : {FALSE}, result : {None}]

ApplyLines ==
    /\ probe # None
    /\ ~probe.applied
    /\ probe' = [probe EXCEPT !.applied = TRUE,
                              !.result = ichimoku_lines(LinesInput(probe.input))]
    /\ UNCHANGED <<loopVars, botVars>>

SpecLines == InitLines /\ [][ApplyLines]_vars

\* The highs and lows of the most recent w candles of closed.
WindowHighs(closed, w) ==
    {closed[i].high : i \in (Len(closed) - w + 1)..Len(closed)}
WindowLows(closed, w) ==
    {closed[i].low : i \in (Len(closed) - w + 1)..Len(closed)}

\* C15: for at least 80 closed candles, tenkan, kijun and senkou_b are
\* (max high + min low) / 2 over the most recent 9, 26 and 52 candles,
\* senkou_a is (tenkan + kijun) / 2, cloud_top and cloud_bottom are the
\* larger and the smaller of senkou_a and senkou_b, and chikou_ok is
\* close[last] > close[last - 26]; for fewer candles the snapshot is absent.
C15_CloudLines ==
    (probe # None /\ probe.applied) =>
        LET closed == LinesInput(probe.input)
            n == Len(closed)
            r == probe.result
        IN IF n < 80 THEN r = None
           ELSE /\ r # None
                /\ 2 * r.tenkan = Max(WindowHighs(closed, 9)) + Min(WindowLows(closed, 9))
                /\ 2 * r.kijun = Max(WindowHighs(closed, 26)) + Min(WindowLows(closed, 26))
                /\ 2 * r.senkou_b = Max(WindowHighs(closed, 52)) + Min(WindowLows(closed, 52))
                /\ 2 * r.senkou_a = r.tenkan + r.kijun
                /\ r.cloud_top = Max({r.senkou_a, r.senkou_b})
                /\ r.cloud_bottom = Min({r.senkou_a, r.senkou_b})
                /\ r.cloud_bottom <= r.cloud_top
                /\ r.chikou_ok = (closed[n].close > closed[n - 26].close)

\* C15 happens: ichimoku_lines was applied to exactly 80 candles whose
\* highest high is the last one inside the tenkan window, on rising prices:
\* the longer the window, the lower its low, so the cloud has a thickness.
C15_Witness ==
    /\ probe # None /\ probe.applied
    /\ probe.input.n = 80 /\ probe.input.outlier = "high" /\ probe.input.at = 8
    /\ probe.result # None
    /\ probe.result.kijun < probe.result.tenkan
    /\ probe.result.cloud_bottom < probe.result.cloud_top

\* The relation between the stage fields of one symbol state.
StageInv(ss) ==
    /\ ss.armed_1d = ss.setup_id
    /\ ss.in_position =>
          /\ ss.setup_id # None
          /\ ss.buy_done_4h = ss.setup_id
          /\ ss.sell_done_15m # ss.setup_id

\* C16: in every reachable symbol state, in memory or saved, armed_1d equals
\* setup_id, and in_position implies buy_done_4h = setup_id, not None, and
\* sell_done_15m # setup_id: the dedup field never suppresses the SELL of an
\* open position.
C16_StageInvariant ==
    /\ \A s \in DOMAIN st.symbols : StageInv(st.symbols[s])
    /\ disk # None => \A s \in DOMAIN disk.symbols : StageInv(disk.symbols[s])

\* C16 happens: a position bought under an earlier daily cycle is open and
\* saved while the cache holds a newer daily candle that meets the arm
\* condition.
C16_Witness ==
    \E s \in DOMAIN st.symbols :
        /\ st.symbols[s].in_position
        /\ disk # None /\ s \in DOMAIN disk.symbols /\ disk.symbols[s].in_position
        /\ ~Insufficient(Frame(cache, s))
        /\ bullish_1d_near(Frame(cache, s))
        /\ SetupId(s, Frame(cache, s)) # st.symbols[s].setup_id

\* The alert a step appends to the log of s, None if it appends none.
Emitted(s) ==
    IF Len(alerts'[s]) > Len(alerts[s]) THEN alerts'[s][Len(alerts'[s])] ELSE None

\* C17: while a symbol is in position no ARM is emitted and setup_id,
\* armed_1d, buy_done_4h and sell_done_15m are not reset; the position is
\* closed by a SELL recorded under the setup_id it was bought under; and an
\* ARM is emitted only by the first segment of a call that found the symbol
\* out of position, so after the SELL only on a later tick.
C17_PositionHoldsCycle ==
    /\ [][\A s \in DOMAIN st.symbols :
            st.symbols[s].in_position =>
                LET a == st.symbols[s]
                    b == st'.symbols[s]
                IN /\ s \in DOMAIN st'.symbols
                   /\ b.setup_id = a.setup_id
                   /\ b.armed_1d = a.armed_1d
                   /\ b.buy_done_4h = a.buy_done_4h
                   /\ b.in_position =>
                         /\ b.sell_done_15m = a.sell_done_15m
                         /\ Emitted(s) = None
                   /\ ~b.in_position =>
                         /\ b.sell_done_15m = a.setup_id
                         /\ Emitted(s) # None
                         /\ Emitted(s).kind = "SELL"
                         /\ Emitted(s).setup_id = a.buy_done_4h]_vars
    /\ [][\A s \in Symbols :
            (Emitted(s) # None /\ Emitted(s).kind = "ARM") =>
                /\ pcPr = "call"
                /\ pr.price_map[pr.i][1] = s
                /\ ~StageOf(st.symbols, s).in_position]_vars

\* C17 happens: a position bought under one daily cycle was sold, under that
\* cycle's id, by a call that already read the next daily candle, and the
\* ARM of that next cycle followed.
C17_Witness ==
    \E s \in Symbols :
        \E i, j, k \in 1..Len(alerts[s]) :
            /\ i < j /\ j < k
            /\ alerts[s][i].kind = "BUY"
            /\ alerts[s][j].kind = "SELL"
            /\ alerts[s][j].setup_id = alerts[s][i].setup_id
            /\ alerts[s][j].cycle # alerts[s][j].setup_id
            /\ alerts[s][k].kind = "ARM"
            /\ alerts[s][k].setup_id = alerts[s][j].cycle

\* The place of an alert kind in the order of the stages.
KindRank(kind) ==
    CASE kind = "ARM" -> 1 [] kind = "BUY" -> 2 [] kind = "SELL" -> 3

\* C18: one call of handle_signals emits at most three alerts, at most one
\* of each kind, in the order ARM, BUY, SELL; BUY and SELL are decided on
\* the state the earlier stage of the same call wrote: a BUY after an ARM
\* carries the ARM's new cycle id, a SELL can follow the BUY of the same
\* call and then leaves in_position = false.  Stated of the whole call on
\* every reachable symbol state and cache, and of the running call step by
\* step.
C18_StageCascade ==
    /\ [](\A s \in DOMAIN st.symbols : \A failAt \in SendFails :
            LET ss == st.symbols[s]
                f == Frame(cache, s)
                r == handle_signals(ss, f, s, failAt)
                n == Len(r.alerts)
            IN /\ n <= 3
               /\ \A i, j \in 1..n :
                     i < j => KindRank(r.alerts[i].kind) < KindRank(r.alerts[j].kind)
               /\ \A i \in 1..n :
                     r.alerts[1].kind = "ARM" =>
                         r.alerts[i].setup_id = SetupId(s, f)
               /\ (n > 0 /\ (failAt = 0 \/ failAt > n)) =>
                     r.ss.in_position = (r.alerts[n].kind = "BUY")
               /\ (~Insufficient(f) /\ failAt = 0 /\ ArmCond(ss, f, SetupId(s, f))) =>
                     LET buy4 == /\ f.tf4.ichi.tenkan > f.tf4.ichi.kijun
                                 /\ ClosedLast(f.tf4.closed).close > f.tf4.ichi.cloud_top
                     IN r.alerts = <<Alert("ARM", SetupId(s, f), SetupId(s, f))>>
                          \o (IF buy4
                              THEN <<Alert("BUY", SetupId(s, f), SetupId(s, f))>>
                              ELSE <<>>)
                          \o (IF buy4 /\ sell_cond_15m(f)
                              THEN <<Alert("SELL", SetupId(s, f), SetupId(s, f))>>
                              ELSE <<>>))
    /\ [][\A s \in Symbols :
            Emitted(s) # None =>
                LET prev == alerts[s][Len(alerts[s])]
                IN \/ pcPr = "call"
                   \/ /\ pcPr = "send_arm"
                      /\ Emitted(s) = [prev EXCEPT !.kind = "BUY"]
                   \/ /\ pcPr = "send_buy"
                      /\ Emitted(s) = [prev EXCEPT !.kind = "SELL"]
                      /\ ~st'.symbols[s].in_position]_vars

\* C18 happens: the call in progress, started on a symbol never armed, has
\* emitted ARM, BUY and SELL on the snapshots it read and left the symbol
\* out of position.
C18_Witness ==
    /\ pcPr = "send_sell"
    /\ LET s == pr.price_map[pr.i][1]
       IN /\ Len(alerts[s]) = 3
          /\ alerts[s] = handle_signals(sym_state(<<>>, s)[s], pr.f, s, 0).alerts
          /\ ~st.symbols[s].in_position
          /\ st.symbols[s].sell_done_15m = st.symbols[s].setup_id

\* The send in progress failed: the exception is recorded for the symbol.
SendRaised ==
    pcPr \in SendStates /\ prPass'.errors # prPass.errors

\* C19: each stage has written its dedup field (and in_position) when its
\* send is attempted; a send that raises keeps the state and the log, ends
\* the call (the loop goes on with the next symbol or saves and sleeps); and
\* no later call emits again an alert of a kind and cycle id already handed
\* to the notifier, delivered or not.
C19_CommitBeforeSend ==
    /\ [](pcPr \in SendStates =>
            LET s == pr.price_map[pr.i][1]
                ss == st.symbols[s]
                a == alerts[s][Len(alerts[s])]
            IN CASE pcPr = "send_arm" ->
                       /\ a.kind = "ARM"
                       /\ ss.setup_id = a.setup_id /\ ss.armed_1d = a.setup_id
                       /\ ss.buy_done_4h = None /\ ss.sell_done_15m = None
                 [] pcPr = "send_buy" ->
                       /\ a.kind = "BUY"
                       /\ ss.buy_done_4h = a.setup_id /\ ss.in_position
                 [] pcPr = "send_sell" ->
                       /\ a.kind = "SELL"
                       /\ ss.sell_done_15m = a.setup_id /\ ~ss.in_position)
    /\ [][SendRaised =>
            /\ st' = st
            /\ alerts' = alerts
            /\ pcPr' \in {"call", "idle"}
            /\ pcPr' = "call" => pr'.i = pr.i + 1
            /\ pcPr' = "idle" => disk' = st]_vars
    /\ [](\A s \in DOMAIN st.symbols : \A failAt \in SendFails :
            LET again == handle_signals(st.symbols[s], Frame(cache, s), s, failAt).alerts
            IN \A i \in 1..Len(alerts[s]) : \A j \in 1..Len(again) :
                  ~(/\ again[j].kind = alerts[s][i].kind
                    /\ again[j].setup_id = alerts[s][i].setup_id))

\* C19 happens: the only alert of the symbol, its ARM, failed to be sent in
\* the scan that just ended; the armed state is kept and saved, and the BUY
\* the 4H snapshot allowed was skipped in that tick.
C19_Witness ==
    /\ pcPr = "idle"
    /\ \E s \in prPass.errors :
          /\ Len(alerts[s]) = 1
          /\ alerts[s][1].kind = "ARM"
          /\ st.symbols[s].armed_1d = alerts[s][1].setup_id
          /\ disk # None /\ disk.symbols[s] = st.symbols[s]
          /\ ~Insufficient(Frame(cache, s))
          /\ BuyCond(st.symbols[s], Frame(cache, s))

(***************************************************************************)
(* The price scan under prices that differ from scan to scan, below and    *)
(* above every candle of the feeds.                                        *)
(***************************************************************************)
PriceValues == {900, 1100}

NextPrices ==
    \/ TopFetchOk({<<"ADAUSDT">>})
    \/ KlStart \/ KlFetchOk(CascadeFeeds)
    \/ PrStart \/ PrPricesOk(PriceValues)
    \/ HsCall \/ HsSendOk \/ HsSendFail

SpecPrices == Init /\ [][NextPrices]_vars

\* A whole call of handle_signals at a given price.
handle_signals_at(ss, f, symbol, price, failAt) ==
    IF Insufficient(f) THEN [ss |-> ss, alerts |-> <<>>]
    ELSE RunSegs(CallSegAt(ss, f, symbol, price), f, SetupId(symbol, f), 1,
                 failAt)

\* The step in which loop_prices calls handle_signals for the current item.
CallStep ==
    pcPr = "call" /\ (pcPr' # "call" \/ pr'.i # pr.i)

\* C20: the state handle_signals leaves and the alerts it emits do not
\* depend on its price argument: whenever it is about to be called, the
\* call gives the same result at every price, and the step the loop takes
\* at the price it has is the step it would take at any other.
C20_PriceIndependence ==
    /\ [](pcPr = "call" =>
            LET s == pr.price_map[pr.i][1]
                ss == sym_state(st.symbols, s)[s]
                f == Frame(cache, s)
                here == pr.price_map[pr.i][2]
            IN \A q \in PriceValues : \A failAt \in SendFails :
                  handle_signals_at(ss, f, s, q, failAt)
                      = handle_signals_at(ss, f, s, here, failAt))
    /\ [][CallStep =>
            LET s == pr.price_map[pr.i][1]
                ss == sym_state(st.symbols, s)[s]
                f == Frame(cache, s)
            IN \A q \in PriceValues :
                  LET seg == CallSegAt(ss, f, s, q)
                  IN /\ st'.symbols[s] = seg.ss
                     /\ alerts' = Emit(alerts, s, seg.alert)
                     /\ (pcPr' \in SendStates) = (seg.pc # "ret")]_vars

\* C20 happens: a call made at the lower price, below the closes the ARM and
\* BUY conditions are decided on, armed and bought.
C20_Witness ==
    /\ pcPr = "send_buy"
    /\ pr.price_map[pr.i][2] = 900
    /\ LET s == pr.price_map[pr.i][1]
       IN /\ Len(alerts[s]) = 2
          /\ 900 < ClosedLast(pr.f.tf1.closed).close
          /\ 900 < ClosedLast(pr.f.tf4.closed).close

(***************************************************************************)
(* Verdict bot: the database.  db is the dict load_db returns: records,    *)
(* ticker -> HukmRecord as a dict, and last_reply_ts, ticker -> time.      *)
(***************************************************************************)
\* d[k] = v on a dict
Put(d, k, v) == [x \in (DOMAIN d) \cup {k} |-> IF x = k THEN v ELSE d[x]]

\* load_db: the content of DB_FILE, or the empty database when open fails.
load_db == IF dbFile = None THEN [records |-> <<>>, last_reply_ts |-> <<>>] ELSE dbFile

\* save_db: json.dump to a temporary file, moved over DB_FILE.
save_db(db) == db

HukmRecord(ticker, hukm, detail, source, ts) ==
    [ticker |-> ticker, hukm |-> hukm, detail |-> detail, source |-> source,
     ts |-> ts]

db_get_record(db, ticker) ==
    IF UpperStr(ticker) \in DOMAIN db.records
    THEN db.records[UpperStr(ticker)] ELSE None

db_set_record(db, rec) ==
    [db EXCEPT !.records = Put(@, UpperStr(rec.ticker), rec)]

\* A cooldown_ok that lets every reply through.
cooldown_okAlways(db, ticker) == TRUE

\* (time.time() - last) >= COOLDOWN_SECONDS
cooldown_ok(db, ticker) ==
    LET last_ts == IF UpperStr(ticker) \in DOMAIN db.last_reply_ts
                   THEN db.last_reply_ts[UpperStr(ticker)] ELSE 0
    IN (wall - last_ts) >= COOLDOWN_SECONDS

mark_replied(db, ticker) ==
    [db EXCEPT !.last_reply_ts = Put(@, UpperStr(ticker), wall)]

(***************************************************************************)
(* Verdict bot: the updates delivered to on_group_message.                 *)
(***************************************************************************)
User(username) == [username |-> username]

\* Who sent the message and where it was forwarded from.
Senders ==
    {[from_user |-> User(HukmCrypto_bot), forward_from |-> None, forward_from_chat |-> None],
     [from_user |-> User(<<"A", "l", "i">>), forward_from |-> None, forward_from_chat |-> None],
     [from_user |-> User(<<>>), forward_from |-> None, forward_from_chat |-> None],
     [from_user |-> User(<<"A", "l", "i">>), forward_from |-> User(HukmCrypto_bot), forward_from_chat |-> None],
     [from_user |-> User(HukmCrypto_bot), forward_from |-> None, forward_from_chat |-> User(<<"h", "a", "l", "o", "l", "_", "n", "e", "w", "s">>)],
     [from_user |-> User(<<"A", "l", "i">>), forward_from |-> User(<<>>), forward_from_chat |-> None]}

\* "btc", "BTC MUBOH", "btc nomuboh", "ETH- muboh", "eth", "! MUBOH", "hi!"
Texts ==
    {<<<<"b", "t", "c">>>>, <<BTC, <<"M", "U", "B", "O", "H">>>>, <<<<"b", "t", "c">>, <<"n", "o", "m", "u", "b", "o", "h">>>>, <<<<"E", "T", "H", "-">>, <<"m", "u", "b", "o", "h">>>>,
     <<<<"e", "t", "h">>>>, <<<<"!">>, <<"M", "U", "B", "O", "H">>>>, <<<<"h", "i", "!">>>>}

Update(text, chat_id, sender) ==
    [text |-> text, chat |-> [id |-> chat_id], from_user |-> sender.from_user,
     forward_from |-> sender.forward_from,
     forward_from_chat |-> sender.forward_from_chat]

\* Every verdict text from every sender, the other texts from one sender,
\* and a verdict of the trusted bot posted in another chat.
Updates ==
    {Update(x, GROUP_CHAT_ID, s) :
        x \in {y \in Texts : looks_like_hukm_message(y)}, s \in Senders}
    \cup {Update(x, GROUP_CHAT_ID, CHOOSE s \in Senders : s.from_user = User(<<"A", "l", "i">>) /\ s.forward_from = None) :
            x \in {y \in Texts : ~looks_like_hukm_message(y)}}
    \cup {Update(<<BTC, <<"M", "U", "B", "O", "H">>>>, GROUP_CHAT_ID + 1, CHOOSE s \in Senders : s.from_user = User(HukmCrypto_bot) /\ s.forward_from_chat = None)}

\* What on_group_message reads off an update before it looks at the
\* database: the ticker of a verdict message, the verdict, the source.
Parse(msg) ==
    LET first == extract_first_ticker(msg.text)
    IN [looks |-> looks_like_hukm_message(msg.text),
        ticker |-> IF first # None THEN first ELSE DashTicker(msg.text),
        h |-> extract_hukm_from_text(msg.text),
        source |-> get_source_username(msg),
        asked |-> first]

Parsed == [msg \in Updates |-> Parse(msg)]

(***************************************************************************)
(* on_group_message from its first line to its first await or its return:  *)
(* what it decides for the update msg on the database db it loaded.        *)
(***************************************************************************)
Done(kind, db, ticker) ==
    [kind |-> kind, db |-> db, ticker |-> ticker, reply |-> None]

\* 2) a plain ticker is answered from the database
AnswerTicker(msg, db) ==
    LET ticker == Parsed[msg].asked
        rec == db_get_record(db, ticker)
    IN IF ticker = None THEN Done("ignored", db, None)
       ELSE IF rec = None THEN Done("silent", db, ticker)
       ELSE IF ~cooldown_ok(db, ticker) THEN Done("cooldown", db, ticker)
       ELSE [kind |-> "reply", db |-> db, ticker |-> ticker,
             reply |-> IF rec.hukm \in {"MUBOH", "NOMUBOH"} THEN rec.hukm
                       ELSE "NOMA'LUM"]

\* 1) a verdict message is stored
Decide(msg, db) ==
    LET text == msg.text
        ticker == Parsed[msg].ticker
        h == Parsed[msg].h
        source == Parsed[msg].source
    IN IF text = <<>> THEN Done("ignored", db, None)
       ELSE IF GROUP_CHAT_ID # 0 /\ msg.chat # None /\ msg.chat.id # GROUP_CHAT_ID
       THEN Done("ignored", db, None)
       ELSE IF ~Parsed[msg].looks THEN AnswerTicker(msg, db)
       ELSE IF /\ TRUST_SOURCE_USERNAMES # {}
               /\ source # <<>>
               /\ LowerStr(source) \notin TRUST_SOURCE_USERNAMES
       THEN Done("untrusted", db, ticker)
       ELSE IF ticker # None /\ h.hukm \in {"MUBOH", "NOMUBOH"}
       THEN Done("stored",
                 db_set_record(db, HukmRecord(UpperStr(ticker), h.hukm, h.detail,
                                              source, wall)),
                 ticker)
       ELSE AnswerTicker(msg, db)

\* An update arrives while no other is being handled (the application
\* handles one update at a time).
OnGroupMessage(updates) ==
    /\ pcMsg = "idle"
    /\ \E msg \in updates :
          LET d == Decide(msg, load_db)
          IN /\ dbFile' = IF d.kind = "stored" THEN save_db(d.db) ELSE dbFile
             /\ CASE d.kind = "reply" ->
                        /\ pcMsg' = "reply"
                        /\ cur' = [db |-> d.db, ticker |-> d.ticker,
                                   reply |-> d.reply, since |-> wall]
                  [] d.kind = "untrusted" /\ ADMIN_DM_CHAT_ID # 0 ->
                        /\ pcMsg' = "admin_dm"
                        /\ cur' = None
                  [] OTHER -> UNCHANGED <<pcMsg, cur>>
    /\ UNCHANGED <<wall, sent>>
    /\ UNCHANGED <<loopVars, probe>>

\* context.bot.send_message to the admin returned or raised: either way the
\* handler ends without a write.
AdminDmDone ==
    /\ pcMsg = "admin_dm"
    /\ pcMsg' = "idle" /\ cur' = None
    /\ UNCHANGED <<dbFile, wall, sent>>
    /\ UNCHANGED <<loopVars, probe>>

\* msg.reply_text returned: the reply was delivered at some time since the
\* await began; the time is marked on the database loaded at the start and the file written.
ReplyOk ==
    /\ pcMsg = "reply"
    /\ \E t \in {u \in cur.since..wall : (u - cur.since) % TimeStep = 0} :
          sent' = [sent EXCEPT ![cur.ticker] = Append(@, t)]
    /\ dbFile' = save_db(mark_replied(cur.db, cur.ticker))
    /\ pcMsg' = "idle" /\ cur' = None
    /\ UNCHANGED wall
    /\ UNCHANGED <<loopVars, probe>>

\* msg.reply_text raised: nothing was sent, nothing is marked.
ReplyFail ==
    /\ pcMsg = "reply"
    /\ pcMsg' = "idle" /\ cur' = None
    /\ UNCHANGED <<dbFile, wall, sent>>
    /\ UNCHANGED <<loopVars, probe>>

\* time.time() advances.
BotTick ==
    /\ wall + TimeStep <= Epoch + MaxElapsed
    /\ wall' = wall + TimeStep
    /\ UNCHANGED <<dbFile, pcMsg, cur, sent>>
    /\ UNCHANGED <<loopVars, probe>>

NextBot ==
    \/ OnGroupMessage(Updates)
    \/ AdminDmDone
    \/ ReplyOk \/ ReplyFail
    \/ BotTick

SpecBot == Init /\ [][NextBot]_vars

\* The records DB_FILE holds.
Records(f) == IF f = None THEN <<>> ELSE f.records

\* C21 (as stated): with a non-empty trust list, every verdict record in the
\* database was written for a message whose source username is in the
\* trust list; a message from any other source, a sender without a
\* username included, creates or overwrites none.
C21_TrustedSourceOnly ==
    TRUST_SOURCE_USERNAMES # {} =>
        \A t \in DOMAIN Records(dbFile) :
            Records(dbFile)[t].source \in TRUST_SOURCE_USERNAMES

\* C22: two replies delivered for the same ticker are at least
\* COOLDOWN_SECONDS apart; a reply is delivered only for a ticker with a
\* stored record; and the step in which an update stores a record ends its
\* handler without a reply sent or awaited.
C22_ReplyCooldown ==
    /\ [](\A t \in Tickers : \A i, j \in 1..Len(sent[t]) :
            i < j => sent[t][j] - sent[t][i] >= COOLDOWN_SECONDS)
    /\ [][\A t \in Tickers :
            sent'[t] # sent[t] =>
                /\ t \in DOMAIN Records(dbFile)
                /\ Records(dbFile') = Records(dbFile)]_vars
    /\ [][Records(dbFile') # Records(dbFile) =>
            /\ sent' = sent
            /\ pcMsg = "idle" /\ pcMsg' = "idle" /\ cur' = None]_vars

\* C22 happens: a ticker was answered twice, the second time at the first
\* moment the cooldown allowed.
C22_Witness ==
    \E t \in Tickers :
        /\ Len(sent[t]) = 2
        /\ sent[t][2] - sent[t][1] < COOLDOWN_SECONDS + TimeStep
        /\ t \in DOMAIN Records(dbFile)
        /\ dbFile.last_reply_ts[t] >= sent[t][2]

====
